---------------------------- MODULE Spec2Model ----------------------------
(***************************************************************************)
(* A model of the MajikMoney value type (src/src/majik-money.ts) and of    *)
(* the currency table it consults (src/src/currency.ts).                   *)
(*                                                                         *)
(* The library is a set of pure operations on immutable instances, so the  *)
(* state of the model is one call frame: the operand instances the caller  *)
(* holds as they are after the latest call (self, other, values) and the   *)
(* record of that call (ret): its name, the arguments as they were passed, *)
(* the error it threw or the instances it returned.  A call may take its   *)
(* receiver from the instances the previous call returned, so that chains  *)
(* such as m.divide(0).add(x) are behaviours of the model.                 *)
(*                                                                         *)
(* A Decimal of decimal.js is modelled as a fraction [n, d]: d >= 1 and    *)
(* gcd(n, d) = 1 for a finite value, d = 0 for the three non-finite values *)
(* (n = 1: Infinity, n = -1: -Infinity, n = 0: NaN).  The working          *)
(* precision of 40 significant digits (majik-money.ts:10-15) is far above  *)
(* the magnitudes the model reaches, where rounding a quotient to 40       *)
(* digits never moves it across an integer or a half-integer; the model    *)
(* therefore keeps quotients exact until toDecimalPlaces rounds them.      *)
(***************************************************************************)
EXTENDS Integers, Sequences, FiniteSets, TLC

VARIABLES self, other, values, ret

vars == <<self, other, values, ret>>

---------------------------------------------------------------------------
(* Bounds of the model.                                                    *)

\* longest ratio sequence passed to allocate, and largest evenSplit count
MaxRatios == 3
\* longest array of the arrays enumerated in full for the statistical reductions
MaxValues == 3
\* largest magnitude of a returned amount that a later call may take as its receiver
MaxChain == 12

---------------------------------------------------------------------------
(* decimal.js values and arithmetic                                        *)

Abs(i) == IF i < 0 THEN -i ELSE i

Sgn(i) == IF i < 0 THEN -1 ELSE IF i > 0 THEN 1 ELSE 0

RECURSIVE GCD(_, _)
GCD(a, b) == IF b = 0 THEN a ELSE GCD(b, a % b)

\* a fraction in lowest terms; a zero denominator keeps only the sign
Norm(n, d) ==
    IF d = 0 THEN [n |-> Sgn(n), d |-> 0]
    ELSE LET s == IF d < 0 THEN -1 ELSE 1
             g == GCD(Abs(n), Abs(d))
         IN  [n |-> (s * n) \div g, d |-> (s * d) \div g]

DInt(i) == [n |-> i, d |-> 1]

DInfinity == [n |-> 1, d |-> 0]

DNegInfinity == [n |-> -1, d |-> 0]

DNaN == [n |-> 0, d |-> 0]

IsFinite(x) == x.d > 0

IsNaN(x) == x.d = 0 /\ x.n = 0

IsZero(x) == x.d > 0 /\ x.n = 0

IsInteger(x) == x.d = 1

\* Decimal.prototype.neg
DNeg(x) == [n |-> -x.n, d |-> x.d]

\* Decimal.prototype.abs
DAbs(x) == [n |-> Abs(x.n), d |-> x.d]

\* Decimal.prototype.add: NaN absorbs, Infinity + -Infinity is NaN
DAdd(x, y) ==
    IF IsFinite(x) /\ IsFinite(y)
    THEN LET g == GCD(x.d, y.d)
         IN  Norm(x.n * (y.d \div g) + y.n * (x.d \div g), x.d * (y.d \div g))
    ELSE IF IsNaN(x) \/ IsNaN(y) THEN DNaN
    ELSE IF ~IsFinite(x) /\ ~IsFinite(y)
         THEN (IF x.n = y.n THEN x ELSE DNaN)
    ELSE IF IsFinite(x) THEN y ELSE x

\* Decimal.prototype.sub
DSub(x, y) == DAdd(x, DNeg(y))

\* Decimal.prototype.mul: Infinity * 0 is NaN
DMul(x, y) == Norm(x.n * y.n, x.d * y.d)

\* Decimal.prototype.div: x / 0 is +-Infinity, 0 / 0 and Infinity / Infinity are NaN
DDiv(x, y) ==
    LET s == IF y.n < 0 THEN -1 ELSE 1
    IN  Norm(s * x.n * y.d, s * x.d * y.n)

DEq(x, y) == ~IsNaN(x) /\ ~IsNaN(y) /\ x = y

\* x < y as Decimal.prototype.lt decides it: false when either side is NaN
DLt(x, y) ==
    /\ ~IsNaN(x) /\ ~IsNaN(y)
    /\ IF IsFinite(x) /\ IsFinite(y) THEN x.n * y.d < y.n * x.d
       ELSE IF IsFinite(x) THEN y.n = 1
       ELSE IF IsFinite(y) THEN x.n = -1
       ELSE x.n < y.n

DGt(x, y) == DLt(y, x)

DLte(x, y) == DLt(x, y) \/ DEq(x, y)

DGte(x, y) == DLt(y, x) \/ DEq(x, y)

RECURSIVE Pow10(_)
Pow10(k) == IF k = 0 THEN 1 ELSE 10 * Pow10(k - 1)

(* The rounding modes of decimal.js (Decimal.Rounding).                    *)
ROUND_UP == 0
ROUND_DOWN == 1
ROUND_CEIL == 2
ROUND_FLOOR == 3
ROUND_HALF_UP == 4
ROUND_HALF_DOWN == 5
ROUND_HALF_EVEN == 6
ROUND_HALF_CEIL == 7
ROUND_HALF_FLOOR == 8

RoundingModes == ROUND_UP .. ROUND_HALF_FLOOR

\* the fraction n/d (d >= 1) rounded to an integer with mode rm
RoundFraction(n, d, rm) ==
    LET a   == Abs(n)
        t   == a \div d
        r   == a % d
        neg == n < 0
        inc == CASE rm = ROUND_UP         -> r > 0
                 [] rm = ROUND_DOWN       -> FALSE
                 [] rm = ROUND_CEIL       -> r > 0 /\ ~neg
                 [] rm = ROUND_FLOOR      -> r > 0 /\ neg
                 [] rm = ROUND_HALF_UP    -> 2 * r >= d
                 [] rm = ROUND_HALF_DOWN  -> 2 * r > d
                 [] rm = ROUND_HALF_EVEN  -> 2 * r > d \/ (2 * r = d /\ t % 2 = 1)
                 [] rm = ROUND_HALF_CEIL  -> 2 * r > d \/ (2 * r = d /\ ~neg)
                 [] rm = ROUND_HALF_FLOOR -> 2 * r > d \/ (2 * r = d /\ neg)
    IN  Sgn(n) * (t + (IF inc THEN 1 ELSE 0))

\* Decimal.prototype.toDecimalPlaces(0, rm); a non-finite value is returned as it is
ToDecimalPlaces0(x, rm) ==
    IF IsFinite(x) THEN DInt(RoundFraction(x.n, x.d, rm)) ELSE x

\* the module-wide Decimal.set({ rounding: ROUND_HALF_EVEN }), used when no mode is passed
DefaultRounding == ROUND_HALF_EVEN


---------------------------------------------------------------------------
(* Strings: a string is a sequence of one-character strings; the three     *)
(* non-finite spellings are kept as one token each.                        *)

DigitChars == <<"0", "1", "2", "3", "4", "5", "6", "7", "8", "9">>

IsDigit(c) == \E i \in 1..10 : DigitChars[i] = c

DigitValue(c) == (CHOOSE i \in 1..10 : DigitChars[i] = c) - 1

RECURSIVE NatToString(_)
NatToString(i) ==
    IF i < 10 THEN <<DigitChars[i + 1]>>
    ELSE Append(NatToString(i \div 10), DigitChars[(i % 10) + 1])

RECURSIVE NatFromString(_)
NatFromString(s) ==
    IF s = <<>> THEN 0
    ELSE 10 * NatFromString(SubSeq(s, 1, Len(s) - 1)) + DigitValue(s[Len(s)])

\* Decimal.prototype.toString of an integer or non-finite value (normal notation:
\* the exponent stays below toExpPos = 50); the sign of a zero is not printed
DecimalToString(x) ==
    IF IsNaN(x) THEN <<"NaN">>
    ELSE IF ~IsFinite(x) THEN (IF x.n > 0 THEN <<"Infinity">> ELSE <<"-Infinity">>)
    ELSE (IF x.n < 0 THEN <<"-">> ELSE <<>>) \o NatToString(Abs(x.n))

\* new Decimal(string): <<value>>, or <<>> when decimal.js throws its
\* "[DecimalError] Invalid argument"
DecimalFromString(s) ==
    IF s = <<"NaN">> THEN <<DNaN>>
    ELSE IF s = <<"Infinity">> THEN <<DInfinity>>
    ELSE IF s = <<"-Infinity">> THEN <<DNegInfinity>>
    ELSE LET neg  == s # <<>> /\ s[1] = "-"
             body == IF neg THEN Tail(s) ELSE s
             dots == {i \in 1..Len(body) : body[i] = "."}
             p    == IF dots = {} THEN Len(body) + 1 ELSE CHOOSE i \in dots : TRUE
             ip   == SubSeq(body, 1, p - 1)
             fp   == SubSeq(body, p + 1, Len(body))
             ok   == /\ Cardinality(dots) <= 1
                     /\ Len(ip) + Len(fp) >= 1
                     /\ \A i \in 1..Len(body) : i = p \/ IsDigit(body[i])
             mag  == NatFromString(ip \o fp)
         IN  IF ok THEN <<Norm(IF neg THEN -mag ELSE mag, Pow10(Len(fp)))>>
             ELSE <<>>

---------------------------------------------------------------------------
(* The currency table (src/src/currency.ts).                               *)

ZeroMinorUnitCodes == {"JPY", "KRW", "VND", "CLP"}

ThreeMinorUnitCodes == {"KWD", "BHD", "JOD"}

TwoMinorUnitCodes ==
    {"USD", "EUR", "GBP", "CHF", "AUD", "CAD", "CNY", "HKD", "SGD", "PHP",
     "INR", "IDR", "THB", "MYR", "COP", "MXN", "BRL", "ARS", "ZAR", "NGN",
     "KES", "EGP", "RUB", "TRY", "PLN", "CZK", "HUF"}

CURRENCIES ==
    [c \in ZeroMinorUnitCodes \cup ThreeMinorUnitCodes \cup TwoMinorUnitCodes |->
        [code |-> c,
         minorUnits |-> IF c \in ZeroMinorUnitCodes THEN 0
                        ELSE IF c \in ThreeMinorUnitCodes THEN 3 ELSE 2]]

\* CURRENCIES[code]: <<definition>>, or <<>> for the undefined of a missing key
LookupCurrency(code) ==
    IF code \in DOMAIN CURRENCIES THEN <<CURRENCIES[code]>> ELSE <<>>

---------------------------------------------------------------------------
(* Instances and the outcome of a call.                                    *)

\* the constructor as it would be if the amount were cut off toward zero
ConstructTruncating(amount, currency) ==
    [amount   |-> ToDecimalPlaces0(amount, ROUND_DOWN),
     currency |-> IF currency = <<>> THEN CURRENCIES["PHP"] ELSE currency[1]]

\* new MajikMoney(amount, currency): the amount is rounded to zero decimal places
\* with the module-wide mode; an undefined currency takes the default parameter
Construct(amount, currency) ==
    [amount   |-> ToDecimalPlaces0(amount, DefaultRounding),
     currency |-> IF currency = <<>> THEN CURRENCIES["PHP"] ELSE currency[1]]

\* a call that returns the instances outs, all of them newly constructed
Return(outs) ==
    [err |-> "none", out |-> outs, ref |-> [i \in DOMAIN outs |-> 0], val |-> "none"]

\* a call that returns values[k] itself, the instance the caller passed in
ReturnElement(vs, k) ==
    [err |-> "none", out |-> <<vs[k]>>, ref |-> <<k>>, val |-> "none"]

\* a call that returns a boolean
ReturnBool(b) ==
    [err |-> "none", out |-> <<>>, ref |-> <<>>,
     val |-> IF b THEN "true" ELSE "false"]

\* a call that throws: e is the Error's message up to its first variable part
Throw(e) == [err |-> e, out |-> <<>>, ref |-> <<>>, val |-> "none"]

---------------------------------------------------------------------------
(* Factories.                                                              *)

\* MajikMoney.fromMinor(minor, currencyCode)
FromMinor(minor, currencyCode) ==
    Return(<<Construct(minor, LookupCurrency(currencyCode))>>)

\* the rounding argument, or the default parameter when it is omitted (-1)
Omitted == -1

RoundingArg(rounding) == IF rounding = Omitted THEN ROUND_HALF_EVEN ELSE rounding

\* fromMajor as it would be if the rounding argument were dropped on the way
FromMajorIgnoringMode(amount, currencyCode, rounding) ==
    LET currency == LookupCurrency(currencyCode)
    IN  IF currency = <<>> THEN Throw("Unsupported currency")
        ELSE Return(<<Construct(
                 ToDecimalPlaces0(DMul(amount, DInt(Pow10(currency[1].minorUnits))),
                                  ROUND_HALF_EVEN), currency)>>)

\* MajikMoney.fromMajor(amount, currencyCode, rounding)
FromMajor(amount, currencyCode, rounding) ==
    LET currency == LookupCurrency(currencyCode)
    IN  IF currency = <<>> THEN Throw("Unsupported currency")
        ELSE LET factor == DInt(Pow10(currency[1].minorUnits))
                 minor  == DMul(amount, factor)
             IN  Return(<<Construct(ToDecimalPlaces0(minor, RoundingArg(rounding)),
                                    currency)>>)

(* A JSON value: t is its JavaScript type; s holds a string's characters   *)
(* (for a currency, the one-element sequence of the code), v a number.     *)
JString(s) == [t |-> "string", s |-> s, v |-> DNaN]

JNumber(v) == [t |-> "number", s |-> <<>>, v |-> v]

JUndefined == [t |-> "undefined", s |-> <<>>, v |-> DNaN]

\* MajikMoney.parseFromJSON(data)
ParseFromJSON(data) ==
    IF data.currency.t # "string" THEN Throw("Invalid currency type")
    ELSE LET currency == LookupCurrency(data.currency.s[1])
             parsed   == IF data.amount.t = "number" THEN <<data.amount.v>>
                         ELSE IF data.amount.t = "string"
                              THEN DecimalFromString(data.amount.s)
                         ELSE <<>>
         IN  IF currency = <<>> THEN Throw("Unsupported currency")
             ELSE IF parsed = <<>> THEN Throw("DecimalError")
             ELSE Return(<<Construct(parsed[1], currency)>>)

\* toJSON as it would be if the amount were printed without its sign
ToJSONUnsigned(m) ==
    [type     |-> JString(<<"MajikMoney">>),
     amount   |-> JString(DecimalToString(DAbs(m.amount))),
     currency |-> JString(<<m.currency.code>>)]

\* MajikMoney.prototype.toJSON
ToJSON(m) ==
    [type     |-> JString(<<"MajikMoney">>),
     amount   |-> JString(DecimalToString(m.amount)),
     currency |-> JString(<<m.currency.code>>)]

NoJSON == [type |-> JUndefined, amount |-> JUndefined, currency |-> JUndefined]

---------------------------------------------------------------------------
(* Instance operations.                                                    *)

\* assertSameCurrency as it would be if it never threw
SameCurrencyUnchecked(a, b) == TRUE

\* the condition under which assertSameCurrency returns without throwing
SameCurrency(a, b) == a.currency.code = b.currency.code

\* MajikMoney.prototype.add
Add(m, o) ==
    IF ~SameCurrency(m, o) THEN Throw("Currency mismatch")
    ELSE Return(<<Construct(DAdd(m.amount, o.amount), <<m.currency>>)>>)

\* MajikMoney.prototype.subtract
Subtract(m, o) ==
    IF ~SameCurrency(m, o) THEN Throw("Currency mismatch")
    ELSE Return(<<Construct(DSub(m.amount, o.amount), <<m.currency>>)>>)

\* MajikMoney.prototype.multiply
Multiply(m, factor, rounding) ==
    LET result == DMul(m.amount, factor)
    IN  Return(<<Construct(ToDecimalPlaces0(result, RoundingArg(rounding)),
                           <<m.currency>>)>>)

\* divide as it would be if, with no mode given, a tie went away from zero
DivideDefaultHalfUp(m, divisor, rounding) ==
    LET result == DDiv(m.amount, divisor)
        mode   == IF rounding = Omitted THEN ROUND_HALF_UP ELSE rounding
    IN  Return(<<Construct(ToDecimalPlaces0(result, mode), <<m.currency>>)>>)

\* MajikMoney.prototype.divide
Divide(m, divisor, rounding) ==
    LET result == DDiv(m.amount, divisor)
    IN  Return(<<Construct(ToDecimalPlaces0(result, RoundingArg(rounding)),
                           <<m.currency>>)>>)

\* MajikMoney.prototype.negate
Negate(m) == Return(<<Construct(DNeg(m.amount), <<m.currency>>)>>)

\* MajikMoney.prototype.abs
AbsMoney(m) == Return(<<Construct(DAbs(m.amount), <<m.currency>>)>>)

\* MajikMoney.prototype.equals
Equals(m, o) ==
    ReturnBool(m.currency.code = o.currency.code /\ DEq(m.amount, o.amount))

\* MajikMoney.prototype.greaterThan
GreaterThan(m, o) ==
    IF ~SameCurrency(m, o) THEN Throw("Currency mismatch")
    ELSE ReturnBool(DGt(m.amount, o.amount))

\* MajikMoney.prototype.lessThan
LessThan(m, o) ==
    IF ~SameCurrency(m, o) THEN Throw("Currency mismatch")
    ELSE ReturnBool(DLt(m.amount, o.amount))

\* MajikMoney.prototype.greaterThanOrEqual
GreaterThanOrEqual(m, o) ==
    IF ~SameCurrency(m, o) THEN Throw("Currency mismatch")
    ELSE ReturnBool(DGte(m.amount, o.amount))

\* MajikMoney.prototype.lessThanOrEqual
LessThanOrEqual(m, o) ==
    IF ~SameCurrency(m, o) THEN Throw("Currency mismatch")
    ELSE ReturnBool(DLte(m.amount, o.amount))

\* ratios.reduce((a, b) => a + b, 0) over JavaScript numbers; the numbers of the
\* model are dyadic fractions of small magnitude, which binary floating point adds exactly
RECURSIVE NumberSum(_)
NumberSum(ns) ==
    IF ns = <<>> THEN DInt(0)
    ELSE DAdd(NumberSum(SubSeq(ns, 1, Len(ns) - 1)), ns[Len(ns)])

\* the share as it would be if it were rounded to the nearest integer
ShareRounded(amount, ratio, total) ==
    ToDecimalPlaces0(DDiv(DMul(amount, ratio), total), ROUND_HALF_EVEN)

\* the share that allocate computes for one ratio
Share(amount, ratio, total) ==
    ToDecimalPlaces0(DDiv(DMul(amount, ratio), total), ROUND_DOWN)

\* the local variable remainder of allocate after the shares of ratios 1..i are taken
RECURSIVE Remainder(_, _, _, _)
Remainder(amount, ratios, total, i) ==
    IF i = 0 THEN amount
    ELSE DSub(Remainder(amount, ratios, total, i - 1), Share(amount, ratios[i], total))

\* the part as it would be if the last one got its share alone, without the remainder
AllocatePartShareOnly(amount, ratios, total, i) == Share(amount, ratios[i], total)

\* the part as it would be if the remainder went to the first part, not the last
AllocatePartRemainderFirst(amount, ratios, total, i) ==
    IF i = 1
    THEN DAdd(Share(amount, ratios[i], total),
              Remainder(amount, ratios, total, Len(ratios)))
    ELSE Share(amount, ratios[i], total)

\* the amount of the i-th part that allocate returns
AllocatePart(amount, ratios, total, i) ==
    IF i = Len(ratios)
    THEN DAdd(Share(amount, ratios[i], total), Remainder(amount, ratios, total, i))
    ELSE Share(amount, ratios[i], total)

\* MajikMoney.prototype.allocate
Allocate(m, ratios) ==
    LET total == NumberSum(ratios)
    IN  Return([i \in 1..Len(ratios) |->
                   Construct(AllocatePart(m.amount, ratios, total, i), <<m.currency>>)])

\* evenSplit as it would be without the test of parts
EvenSplitUnguarded(m, parts) == Allocate(m, [i \in 1..parts |-> DInt(1)])

\* MajikMoney.prototype.evenSplit
EvenSplit(m, parts) ==
    IF parts <= 0 THEN Throw("Number of parts must be > 0")
    ELSE Allocate(m, [i \in 1..parts |-> DInt(1)])

\* MajikMoney.prototype.toMajorDecimal
ToMajorDecimal(m) == DDiv(m.amount, DInt(Pow10(m.currency.minorUnits)))

\* MajikMoney.prototype.toMajor: the major-unit value as a JavaScript number. The
\* values of the model have far fewer than 15 significant digits, so that
\* new Decimal(m.toMajor()) is the decimal value again; Infinity and NaN stay
ToMajor(m) == DDiv(m.amount, DInt(Pow10(m.currency.minorUnits)))

\* MajikMoney.prototype.convert
Convert(m, rate, targetCurrency, rounding) ==
    LET majorSource == ToMajor(m)
        majorTarget == DMul(majorSource, rate)
    IN  FromMajor(majorTarget, targetCurrency.code, rounding)

\* MajikMoney.prototype.convertFromQuoted: no test of quotedRate before the division
ConvertFromQuoted(m, quotedRate, targetCurrency, rounding) ==
    LET rate == DDiv(DInt(1), quotedRate)
    IN  Convert(m, rate, targetCurrency, rounding)

---------------------------------------------------------------------------
(* Statistical reductions (static).                                        *)

\* the currency test as it would be if only the second element were compared with
\* the first
MixedAtSecondOnly(vs, i) == i = 2 /\ vs[i].currency.code # vs[1].currency.code

\* the test `m.currency.code !== currency.code` against the first element's currency
MixedAt(vs, i) == vs[i].currency.code # vs[1].currency.code

\* the reduce of sum from element i on, with accumulator acc
RECURSIVE SumFrom(_, _, _)
SumFrom(vs, i, acc) ==
    IF i > Len(vs) THEN Return(<<acc>>)
    ELSE IF MixedAt(vs, i) THEN Throw("Currency mismatch")
    ELSE LET r == Add(acc, vs[i])
         IN  IF r.err # "none" THEN r ELSE SumFrom(vs, i + 1, r.out[1])

\* MajikMoney.sum
Sum(vs) ==
    IF Len(vs) = 0 THEN Throw("No values provided")
    ELSE SumFrom(vs, 1, FromMinor(DInt(0), vs[1].currency.code).out[1])

\* MajikMoney.average
Average(vs) ==
    LET s == Sum(vs)
    IN  IF s.err # "none" THEN s ELSE Divide(s.out[1], DInt(Len(vs)), Omitted)

\* the forEach of weightedAverage from element i on
RECURSIVE WeightedFrom(_, _, _, _, _)
WeightedFrom(vs, ws, i, weightedSum, totalWeight) ==
    IF i > Len(vs) THEN Divide(weightedSum, totalWeight, Omitted)
    ELSE IF MixedAt(vs, i) THEN Throw("Currency mismatch")
    ELSE LET r == Add(weightedSum, Multiply(vs[i], ws[i], Omitted).out[1])
         IN  IF r.err # "none" THEN r
             ELSE WeightedFrom(vs, ws, i + 1, r.out[1], DAdd(totalWeight, ws[i]))

\* MajikMoney.weightedAverage
WeightedAverage(vs, ws) ==
    IF Len(vs) = 0 THEN Throw("No values provided")
    ELSE IF Len(vs) # Len(ws) THEN Throw("Values and weights length mismatch")
    ELSE WeightedFrom(vs, ws, 1, FromMinor(DInt(0), vs[1].currency.code).out[1],
                      DInt(0))

\* the position at which index k goes into the ascending index list s, behind the
\* elements that compare equal to it (Array.prototype.sort is stable)
RECURSIVE InsertSorted(_, _, _)
InsertSorted(vs, s, k) ==
    IF s = <<>> THEN <<k>>
    ELSE IF DLt(vs[k].amount, vs[Head(s)].amount) THEN <<k>> \o s
    ELSE <<Head(s)>> \o InsertSorted(vs, Tail(s), k)

\* the order as it would be if median took the elements as given, without sorting
SortedIndicesAsGiven(vs, n) == [i \in 1..n |-> i]

\* [...values].sort((a, b) => a.toMinor() - b.toMinor()), as the indices of the
\* elements of values in sorted order
RECURSIVE SortedIndices(_, _)
SortedIndices(vs, n) ==
    IF n = 0 THEN <<>> ELSE InsertSorted(vs, SortedIndices(vs, n - 1), n)

\* the caller's array as it would be if median sorted values itself, not a copy
ArrayAfterMedianInPlace(vs) ==
    IF vs = <<>> \/ \E i \in 1..Len(vs) : MixedAt(vs, i) THEN vs
    ELSE [i \in 1..Len(vs) |-> vs[SortedIndices(vs, Len(vs))[i]]]

\* the caller's array after median: sort works on the copy [...values]
ArrayAfterMedian(vs) == vs

\* MajikMoney.median
Median(vs) ==
    IF Len(vs) = 0 THEN Throw("No values provided")
    ELSE IF \E i \in 1..Len(vs) : MixedAt(vs, i) THEN Throw("Currency mismatch")
    ELSE LET sorted == SortedIndices(vs, Len(vs))
             mid    == Len(vs) \div 2
         IN  IF Len(vs) % 2 = 0
             THEN LET r == Add(vs[sorted[mid]], vs[sorted[mid + 1]])
                  IN  IF r.err # "none" THEN r
                      ELSE Divide(r.out[1], DInt(2), Omitted)
             ELSE ReturnElement(vs, sorted[mid + 1])

\* the reduce of min from element i on; prev is the index of the element kept so far
RECURSIVE MinFrom(_, _, _)
MinFrom(vs, i, prev) ==
    IF i > Len(vs) THEN ReturnElement(vs, prev)
    ELSE LET c == LessThan(vs[prev], vs[i])
         IN  IF c.err # "none" THEN c
             ELSE MinFrom(vs, i + 1, IF c.val = "true" THEN prev ELSE i)

\* MajikMoney.min
Min(vs) == IF Len(vs) = 0 THEN Throw("No values provided") ELSE MinFrom(vs, 2, 1)

\* the reduce of max from element i on
RECURSIVE MaxFrom(_, _, _)
MaxFrom(vs, i, prev) ==
    IF i > Len(vs) THEN ReturnElement(vs, prev)
    ELSE LET c == GreaterThan(vs[prev], vs[i])
         IN  IF c.err # "none" THEN c
             ELSE MaxFrom(vs, i + 1, IF c.val = "true" THEN prev ELSE i)

\* MajikMoney.max
Max(vs) == IF Len(vs) = 0 THEN Throw("No values provided") ELSE MaxFrom(vs, 2, 1)

\* the reduce of variance: the sum of the squared differences from mean, in major units
RECURSIVE SumSquared(_, _, _)
SumSquared(vs, mean, i) ==
    IF i = 0 THEN DInt(0)
    ELSE LET diff == DSub(ToMajorDecimal(vs[i]), mean)
         IN  DAdd(SumSquared(vs, mean, i - 1), DMul(diff, diff))

\* MajikMoney.variance
Variance(vs) ==
    IF Len(vs) = 0 THEN Throw("No values provided")
    ELSE LET avg == Average(vs)
         IN  IF avg.err # "none" THEN avg
             ELSE LET mean          == ToMajorDecimal(avg.out[1])
                      varianceMajor == DDiv(SumSquared(vs, mean, Len(vs)),
                                            DInt(Len(vs)))
                  IN  FromMajor(varianceMajor, vs[1].currency.code, Omitted)

\* the largest r with r * r <= i, searched upward from r
RECURSIVE FloorSqrtFrom(_, _)
FloorSqrtFrom(i, r) ==
    IF (r + 1) * (r + 1) > i THEN r ELSE FloorSqrtFrom(i, r + 1)

\* fromMajor(major.sqrt(), code) for a major-unit value with at most minorUnits
\* decimals: the square root scaled to minor units and rounded to the nearest
\* integer (the root of an integer is never halfway between two integers)
SqrtFromMajor(major, currency) ==
    IF IsNaN(major) \/ major.n < 0 THEN Construct(DNaN, <<currency>>)
    ELSE IF ~IsFinite(major) THEN Construct(DInfinity, <<currency>>)
    ELSE LET k == currency.minorUnits
             i == (major.n * Pow10(2 * k)) \div major.d
             r == FloorSqrtFrom(i, 0)
         IN  Construct(DInt(IF i - r * r > r THEN r + 1 ELSE r), <<currency>>)

\* MajikMoney.standardDeviation
StandardDeviation(vs) ==
    LET v == Variance(vs)
    IN  IF v.err # "none" THEN v
        ELSE Return(<<SqrtFromMajor(ToMajorDecimal(v.out[1]), vs[1].currency)>>)

---------------------------------------------------------------------------
(* Inputs of the calls.                                                    *)

\* largest magnitude of an integer passed to fromMinor
MaxMinor == 7

Frac(n, d) == Norm(n, d)

\* currency codes passed to the factories; "XXX" is not in the table
CodeInputs == {"PHP", "USD", "JPY", "KWD", "XXX"}

\* minor-unit values passed to fromMinor
MinorInputs ==
    {DInt(i) : i \in -MaxMinor..MaxMinor}
    \cup {Frac(5, 2), Frac(7, 2), Frac(29, 10), Frac(-5, 2)}

\* major-unit values passed to fromMajor
MajorInputs ==
    {DInt(0), DInt(1), DInt(-1), DInt(7), DInt(1000), Frac(123456, 100),
     Frac(1, 2), Frac(3, 2), Frac(5, 2), Frac(-1, 2), Frac(-3, 2),
     Frac(1, 8), Frac(3, 8), Frac(-1, 8), Frac(333, 1000),
     Frac(5, 1000), Frac(15, 1000), Frac(-5, 1000), Frac(12, 10000),
     Frac(5, 10000), Frac(15, 10000), Frac(-25, 10000)}

\* the rounding argument: one of the nine modes, or left out
ModeInputs == RoundingModes \cup {Omitted}

\* factors passed to multiply
FactorInputs == {DInt(0), DInt(2), Frac(1, 2), Frac(3, 2), Frac(-1, 2), Frac(1, 4)}

\* divisors passed to divide
DivisorInputs == {DInt(0), DInt(2), DInt(3), DInt(-2), DInt(4), Frac(1, 2)}

\* conversion rates passed to convert (target per source unit)
RateInputs == {DInt(0), DInt(2), Frac(1, 2)}

\* quoted rates passed to convertFromQuoted (source per target unit); their
\* reciprocals have finitely many decimal digits
QuotedRateInputs == {DInt(0), DInt(2), DInt(4), Frac(1, 2)}

\* currency definitions passed as the target of a conversion
TargetInputs == {CURRENCIES[c] : c \in {"PHP", "JPY", "KWD"}}

\* the rounding argument of a conversion
ConvertModeInputs == {Omitted, ROUND_DOWN, ROUND_HALF_UP}

\* JSON objects passed to parseFromJSON
JSONInputs ==
    [type     : {JString(<<"MajikMoney">>), JUndefined},
     amount   : {JString(<<"1", "2", "3">>), JString(<<"-", "5">>),
                 JString(<<"2", ".", "5">>), JString(<<"a", "b", "c">>),
                 JString(<<>>),
                 JNumber(DInt(7)), JNumber(Frac(5, 2)), JNumber(Frac(7, 2)),
                 JUndefined},
     currency : {JString(<<c>>) : c \in CodeInputs} \cup {JUndefined, JNumber(DInt(1))}]

\* an instance built in the argument position: MajikMoney.fromMinor(v, code)
Instance(v, code) == FromMinor(DInt(v), code).out[1]

\* instances passed as the argument of a binary operation
OtherInputs == {Instance(v, c) : v \in {-2, 0, 3}, c \in {"PHP", "USD", "JPY"}}

\* all sequences over S of length 0..n
SeqsUpTo(S, n) == UNION {[1..k -> S] : k \in 0..n}

\* ratio sequences passed to allocate
RatioInputs == SeqsUpTo({DInt(-1), DInt(0), Frac(1, 2), DInt(1), DInt(2)}, MaxRatios)

\* arrays passed to the statistical reductions
ArrayInputs ==
    SeqsUpTo({Instance(v, c) : v \in {1, 2, 4}, c \in {"PHP", "JPY"}}, MaxValues)

\* the array of the statistics example: 100, 200 and 300 USD
StatisticsExample ==
    <<Instance(10000, "USD"), Instance(20000, "USD"), Instance(30000, "USD")>>

\* four yen amounts whose average, 2.5, is not a whole number of minor units
FourYenAmounts == [i \in 1..4 |-> Instance(i, "JPY")]

\* arrays passed to variance
VarianceInputs == ArrayInputs \cup {StatisticsExample, FourYenAmounts}

\* weight arrays passed to weightedAverage with an array of n values: of the same
\* length, or one shorter
WeightInputs(n) ==
    UNION {[1..k -> {DInt(0), DInt(1), Frac(1, 2)}] : k \in {n, n - 1} \cap 0..MaxValues}

---------------------------------------------------------------------------
(* The call frame.                                                         *)

\* the arguments of a call, as they were passed
NoArgs ==
    [self |-> <<>>, other |-> <<>>, values |-> <<>>, num |-> DNaN, mode |-> Omitted,
     ratios |-> <<>>, weights |-> <<>>, parts |-> 0, code |-> "", data |-> NoJSON]

NoCall ==
    [op |-> "none", in |-> NoArgs, err |-> "none", out |-> <<>>, ref |-> <<>>,
     val |-> "none", json |-> NoJSON]

\* the record of the call op with arguments in and outcome r
Call(op, in, r) ==
    [op |-> op, in |-> in, err |-> r.err, out |-> r.out, ref |-> r.ref,
     val |-> r.val, json |-> NoJSON]

\* no instance is held and no call has been made
Idle == self = <<>> /\ ret.op = "none"

\* the caller holds a receiver and has not called anything on it yet
Holding == self # <<>> /\ ret.op = "none"

Factories == {"fromMinor", "fromMajor", "parseFromJSON"}

\* a returned instance that the caller may go on with
Chainable(i) ==
    /\ ret.err = "none"
    /\ i \in DOMAIN ret.out
    /\ \/ ret.op \in Factories
       \/ ~IsFinite(ret.out[i].amount)
       \/ Abs(ret.out[i].amount.n) <= MaxChain

Init == self = <<>> /\ other = <<>> /\ values = <<>> /\ ret = NoCall

---------------------------------------------------------------------------
(* Static calls, made from the idle frame.                                 *)

CallFromMinor ==
    /\ Idle
    /\ \E minor \in MinorInputs, code \in CodeInputs :
          ret' = Call("fromMinor", [NoArgs EXCEPT !.num = minor, !.code = code],
                      FromMinor(minor, code))
    /\ UNCHANGED <<self, other, values>>

CallFromMajor ==
    /\ Idle
    /\ \E amount \in MajorInputs, code \in CodeInputs, rounding \in ModeInputs :
          ret' = Call("fromMajor",
                      [NoArgs EXCEPT !.num = amount, !.code = code, !.mode = rounding],
                      FromMajor(amount, code, rounding))
    /\ UNCHANGED <<self, other, values>>

CallParseFromJSON ==
    /\ Idle
    /\ \E data \in JSONInputs :
          ret' = Call("parseFromJSON", [NoArgs EXCEPT !.data = data],
                      ParseFromJSON(data))
    /\ UNCHANGED <<self, other, values>>

CallSum ==
    /\ Idle
    /\ \E vs \in ArrayInputs :
          /\ ret' = Call("sum", [NoArgs EXCEPT !.values = vs], Sum(vs))
          /\ values' = vs
    /\ UNCHANGED <<self, other>>

CallAverage ==
    /\ Idle
    /\ \E vs \in ArrayInputs :
          /\ ret' = Call("average", [NoArgs EXCEPT !.values = vs], Average(vs))
          /\ values' = vs
    /\ UNCHANGED <<self, other>>

CallMin ==
    /\ Idle
    /\ \E vs \in ArrayInputs :
          /\ ret' = Call("min", [NoArgs EXCEPT !.values = vs], Min(vs))
          /\ values' = vs
    /\ UNCHANGED <<self, other>>

CallMax ==
    /\ Idle
    /\ \E vs \in ArrayInputs :
          /\ ret' = Call("max", [NoArgs EXCEPT !.values = vs], Max(vs))
          /\ values' = vs
    /\ UNCHANGED <<self, other>>

CallVariance ==
    /\ Idle
    /\ \E vs \in VarianceInputs :
          /\ ret' = Call("variance", [NoArgs EXCEPT !.values = vs], Variance(vs))
          /\ values' = vs
    /\ UNCHANGED <<self, other>>

CallStandardDeviation ==
    /\ Idle
    /\ \E vs \in ArrayInputs :
          /\ ret' = Call("standardDeviation", [NoArgs EXCEPT !.values = vs], StandardDeviation(vs))
          /\ values' = vs
    /\ UNCHANGED <<self, other>>

CallWeightedAverage ==
    /\ Idle
    /\ \E vs \in ArrayInputs :
          \E ws \in WeightInputs(Len(vs)) :
             /\ ret' = Call("weightedAverage",
                            [NoArgs EXCEPT !.values = vs, !.weights = ws],
                            WeightedAverage(vs, ws))
             /\ values' = vs
    /\ UNCHANGED <<self, other>>

CallMedian ==
    /\ Idle
    /\ \E vs \in ArrayInputs :
          /\ ret' = Call("median", [NoArgs EXCEPT !.values = vs], Median(vs))
          /\ values' = ArrayAfterMedian(vs)
    /\ UNCHANGED <<self, other>>

---------------------------------------------------------------------------
(* What the caller does with the instances a call returned.                *)

\* the caller goes on with the i-th returned instance as the receiver
Keep ==
    /\ \E i \in DOMAIN ret.out :
          /\ Chainable(i)
          /\ self' = <<ret.out[i]>>
    /\ other' = <<>>
    /\ values' = <<>>
    /\ ret' = NoCall

\* the caller lets go of everything it holds
Discard ==
    /\ ~Idle
    /\ self' = <<>>
    /\ other' = <<>>
    /\ values' = <<>>
    /\ ret' = NoCall

---------------------------------------------------------------------------
(* Instance calls, made on the receiver the caller holds.                  *)

CallAdd ==
    /\ Holding
    /\ \E o \in OtherInputs :
          /\ ret' = Call("add", [NoArgs EXCEPT !.self = self, !.other = <<o>>],
                         Add(self[1], o))
          /\ other' = <<o>>
    /\ UNCHANGED <<self, values>>

CallSubtract ==
    /\ Holding
    /\ \E o \in OtherInputs :
          /\ ret' = Call("subtract", [NoArgs EXCEPT !.self = self, !.other = <<o>>],
                         Subtract(self[1], o))
          /\ other' = <<o>>
    /\ UNCHANGED <<self, values>>

CallEquals ==
    /\ Holding
    /\ \E o \in OtherInputs :
          /\ ret' = Call("equals", [NoArgs EXCEPT !.self = self, !.other = <<o>>],
                         Equals(self[1], o))
          /\ other' = <<o>>
    /\ UNCHANGED <<self, values>>

CallGreaterThan ==
    /\ Holding
    /\ \E o \in OtherInputs :
          /\ ret' = Call("greaterThan", [NoArgs EXCEPT !.self = self, !.other = <<o>>],
                         GreaterThan(self[1], o))
          /\ other' = <<o>>
    /\ UNCHANGED <<self, values>>

CallLessThan ==
    /\ Holding
    /\ \E o \in OtherInputs :
          /\ ret' = Call("lessThan", [NoArgs EXCEPT !.self = self, !.other = <<o>>],
                         LessThan(self[1], o))
          /\ other' = <<o>>
    /\ UNCHANGED <<self, values>>

CallGreaterThanOrEqual ==
    /\ Holding
    /\ \E o \in OtherInputs :
          /\ ret' = Call("greaterThanOrEqual", [NoArgs EXCEPT !.self = self, !.other = <<o>>],
                         GreaterThanOrEqual(self[1], o))
          /\ other' = <<o>>
    /\ UNCHANGED <<self, values>>

CallLessThanOrEqual ==
    /\ Holding
    /\ \E o \in OtherInputs :
          /\ ret' = Call("lessThanOrEqual", [NoArgs EXCEPT !.self = self, !.other = <<o>>],
                         LessThanOrEqual(self[1], o))
          /\ other' = <<o>>
    /\ UNCHANGED <<self, values>>

CallMultiply ==
    /\ Holding
    /\ \E factor \in FactorInputs, rounding \in ModeInputs :
          ret' = Call("multiply",
                      [NoArgs EXCEPT !.self = self, !.num = factor, !.mode = rounding],
                      Multiply(self[1], factor, rounding))
    /\ UNCHANGED <<self, other, values>>

CallDivide ==
    /\ Holding
    /\ \E divisor \in DivisorInputs, rounding \in ModeInputs :
          ret' = Call("divide",
                      [NoArgs EXCEPT !.self = self, !.num = divisor, !.mode = rounding],
                      Divide(self[1], divisor, rounding))
    /\ UNCHANGED <<self, other, values>>

CallNegate ==
    /\ Holding
    /\ ret' = Call("negate", [NoArgs EXCEPT !.self = self], Negate(self[1]))
    /\ UNCHANGED <<self, other, values>>

CallAbs ==
    /\ Holding
    /\ ret' = Call("abs", [NoArgs EXCEPT !.self = self], AbsMoney(self[1]))
    /\ UNCHANGED <<self, other, values>>

CallAllocate ==
    /\ Holding
    /\ \E ratios \in RatioInputs :
          ret' = Call("allocate", [NoArgs EXCEPT !.self = self, !.ratios = ratios],
                      Allocate(self[1], ratios))
    /\ UNCHANGED <<self, other, values>>

CallEvenSplit ==
    /\ Holding
    /\ \E parts \in -1..MaxRatios :
          ret' = Call("evenSplit", [NoArgs EXCEPT !.self = self, !.parts = parts],
                      EvenSplit(self[1], parts))
    /\ UNCHANGED <<self, other, values>>

CallConvert ==
    /\ Holding
    /\ \E rate \in RateInputs, targetCurrency \in TargetInputs,
          rounding \in ConvertModeInputs :
          ret' = Call("convert",
                      [NoArgs EXCEPT !.self = self, !.num = rate,
                                     !.code = targetCurrency.code, !.mode = rounding],
                      Convert(self[1], rate, targetCurrency, rounding))
    /\ UNCHANGED <<self, other, values>>

CallConvertFromQuoted ==
    /\ Holding
    /\ \E quotedRate \in QuotedRateInputs, targetCurrency \in TargetInputs,
          rounding \in ConvertModeInputs :
          ret' = Call("convertFromQuoted",
                      [NoArgs EXCEPT !.self = self, !.num = quotedRate,
                                     !.code = targetCurrency.code, !.mode = rounding],
                      ConvertFromQuoted(self[1], quotedRate, targetCurrency, rounding))
    /\ UNCHANGED <<self, other, values>>

CallToJSON ==
    /\ Holding
    /\ ret' = [Call("toJSON", [NoArgs EXCEPT !.self = self], Return(<<>>))
                  EXCEPT !.json = ToJSON(self[1])]
    /\ UNCHANGED <<self, other, values>>

\* MajikMoney.parseFromJSON(m.toJSON()): the object toJSON returned is parsed back
\* while the caller still holds m
CallParseBack ==
    /\ self # <<>>
    /\ ret.op = "toJSON"
    /\ ret' = Call("parseFromJSON", [NoArgs EXCEPT !.data = ret.json],
                   ParseFromJSON(ret.json))
    /\ UNCHANGED <<self, other, values>>

Next ==
    \/ CallFromMinor \/ CallFromMajor \/ CallParseFromJSON
    \/ CallSum \/ CallAverage \/ CallWeightedAverage \/ CallMedian
    \/ CallMin \/ CallMax \/ CallVariance \/ CallStandardDeviation
    \/ Keep \/ Discard
    \/ CallAdd \/ CallSubtract \/ CallMultiply \/ CallDivide
    \/ CallNegate \/ CallAbs
    \/ CallEquals \/ CallGreaterThan \/ CallLessThan
    \/ CallGreaterThanOrEqual \/ CallLessThanOrEqual
    \/ CallAllocate \/ CallEvenSplit
    \/ CallConvert \/ CallConvertFromQuoted
    \/ CallToJSON \/ CallParseBack

Spec == Init /\ [][Next]_vars

---------------------------------------------------------------------------
(* Properties.                                                             *)

RECURSIVE IntSum(_)
IntSum(ns) == IF ns = <<>> THEN 0 ELSE ns[1] + IntSum(Tail(ns))

\* the minor-unit amounts of the returned instances
OutMinor == [i \in DOMAIN ret.out |-> ret.out[i].amount.n]

AllOutInteger == \A i \in DOMAIN ret.out : IsInteger(ret.out[i].amount)

\* a non-empty sequence of non-negative ratios with positive sum
ValidRatios(rs) ==
    /\ rs # <<>>
    /\ \A i \in DOMAIN rs : IsFinite(rs[i]) /\ rs[i].n >= 0
    /\ \E i \in DOMAIN rs : rs[i].n > 0

\* the rearrangements of the sequence rs
Rearrangements(rs) ==
    {[i \in DOMAIN rs |-> rs[p[i]]] : p \in Permutations(DOMAIN rs)}

\* C1: for an integer amount and a non-empty sequence of non-negative ratios with
\* positive sum, allocate returns one part per ratio and the minor-unit amounts of
\* the parts sum exactly to the amount, for the ratios as given and for every
\* rearrangement of them.
C1_AllocateSumsExactly ==
    (ret.op = "allocate" /\ IsInteger(ret.in.self[1].amount)
        /\ ValidRatios(ret.in.ratios))
    => /\ ret.err = "none"
       /\ Len(ret.out) = Len(ret.in.ratios)
       /\ AllOutInteger
       /\ IntSum(OutMinor) = ret.in.self[1].amount.n
       /\ \A rs \in Rearrangements(ret.in.ratios) :
             LET parts == Allocate(ret.in.self[1], rs).out
             IN  /\ \A i \in DOMAIN parts : IsInteger(parts[i].amount)
                 /\ IntSum([i \in DOMAIN parts |-> parts[i].amount.n])
                       = ret.in.self[1].amount.n

\* -7 minor units split 1:1:1: two parts of -2 and the last part of -3
C1_Witness ==
    /\ ret.op = "allocate"
    /\ ret.in.self[1].amount = DInt(-7)
    /\ ret.in.ratios = <<DInt(1), DInt(1), DInt(1)>>
    /\ OutMinor = <<-2, -2, -3>>

\* C2: every returned instance holds a finite, integer-valued minor-unit amount.
C2_AmountsAlwaysInteger == ret.err = "none" => AllOutInteger

\* the operations that take a second instance
BinaryOps ==
    {"add", "subtract", "equals", "greaterThan", "lessThan", "greaterThanOrEqual",
     "lessThanOrEqual"}

CodesDiffer ==
    ret.in.self # <<>> /\ ret.in.other # <<>>
    /\ ret.in.self[1].currency.code # ret.in.other[1].currency.code

Failed(e) == ret.err = e /\ ret.out = <<>> /\ ret.val = "none"

\* C3 as stated: add, subtract and every comparison, equals included, fail with a
\* currency-mismatch error when the two currency codes differ.
C3_EveryBinaryOpFails ==
    (ret.op \in BinaryOps /\ CodesDiffer) => Failed("Currency mismatch")

\* C3 as amended: when the two currency codes differ, add, subtract, greaterThan,
\* lessThan, greaterThanOrEqual and lessThanOrEqual fail with a currency-mismatch
\* error and return nothing; equals does not fail and returns false.
C3_MismatchFailsExceptEquals ==
    (ret.op \in BinaryOps /\ CodesDiffer)
    => IF ret.op = "equals"
       THEN ret.err = "none" /\ ret.val = "false" /\ ret.out = <<>>
       ELSE Failed("Currency mismatch")

\* a PHP amount added to a JPY amount
C3_Witness ==
    /\ ret.op = "add"
    /\ ret.in.self[1].currency.code = "PHP"
    /\ ret.in.other[1].currency.code = "JPY"
    /\ ret.err = "Currency mismatch"

\* the currency code a factory call was given
GivenCode ==
    IF ret.op = "parseFromJSON" THEN ret.in.data.currency.s[1] ELSE ret.in.code

GivenACode ==
    /\ ret.op \in Factories
    /\ ret.op = "parseFromJSON" => ret.in.data.currency.t = "string"

\* C4: a factory given a currency code that is not in the table fails with an
\* unsupported-currency error and returns no instance.
C4_UnknownCodeFails ==
    (GivenACode /\ GivenCode \notin DOMAIN CURRENCIES) => Failed("Unsupported currency")

\* C5: divide by zero fails with a division-by-zero error, whatever the rounding
\* mode, and returns no instance.
C5_DivideByZeroFails ==
    (ret.op = "divide" /\ IsZero(ret.in.num)) => Failed("Division by zero")

\* C6: allocate fails with an invalid-allocation error and returns no parts when the
\* ratio sequence is empty or the ratios sum to zero or less.
C6_AllocateRejectsBadRatios ==
    (ret.op = "allocate"
        /\ (ret.in.ratios = <<>> \/ NumberSum(ret.in.ratios).n <= 0))
    => Failed("Invalid allocation")

\* C7: for an instance m with an integer amount, toJSON returns the tag
\* "MajikMoney", the currency code and the amount as the decimal digits of the minor
\* units (with a leading minus sign when negative), and parseFromJSON of that object
\* returns an instance with the currency code and the minor-unit amount of m.
C7_JSONRoundTrip ==
    (self # <<>> /\ IsInteger(self[1].amount))
    => /\ ret.op = "toJSON"
          => /\ ret.json.type = JString(<<"MajikMoney">>)
             /\ ret.json.currency = JString(<<self[1].currency.code>>)
             /\ ret.json.amount.t = "string"
             /\ LET str == ret.json.amount.s
                    neg == self[1].amount.n < 0
                    dig == IF neg THEN Tail(str) ELSE str
                IN  /\ neg => str[1] = "-"
                    /\ dig # <<>>
                    /\ \A i \in DOMAIN dig : IsDigit(dig[i])
                    /\ NatFromString(dig) = Abs(self[1].amount.n)
       /\ ret.op = "parseFromJSON"
          => /\ ret.err = "none"
             /\ Len(ret.out) = 1
             /\ ret.out[1].currency.code = self[1].currency.code
             /\ ret.out[1].amount = self[1].amount
             /\ Equals(ret.out[1], self[1]).val = "true"

\* -5 KWD minor units serialised and parsed back
C7_Witness ==
    /\ ret.op = "parseFromJSON"
    /\ self = <<Instance(-5, "KWD")>>
    /\ ret.in.data.amount = JString(<<"-", "5">>)
    /\ ret.out = self

Reductions ==
    {"sum", "average", "weightedAverage", "median", "min", "max", "variance",
     "standardDeviation"}

\* the array passed holds two elements of differing currency codes
MixedArray ==
    \E i, j \in DOMAIN ret.in.values :
        ret.in.values[i].currency.code # ret.in.values[j].currency.code

\* C8 as stated: every reduction fails on an empty array, and fails with a
\* currency-mismatch error on an array holding two differing currency codes.
C8_EveryReductionFails ==
    ret.op \in Reductions
    => /\ ret.in.values = <<>> => (ret.err # "none" /\ ret.out = <<>>)
       /\ MixedArray => Failed("Currency mismatch")

\* C8 as amended: every reduction fails on an empty array; on an array holding two
\* differing currency codes, wherever they sit, every reduction fails and returns
\* nothing, with a currency-mismatch error, except that weightedAverage given a
\* weight array of another length fails with the length-mismatch error instead.
C8_ReductionsFailEagerly ==
    ret.op \in Reductions
    => /\ ret.in.values = <<>> => Failed("No values provided")
       /\ MixedArray
          => IF ret.op = "weightedAverage"
                  /\ Len(ret.in.weights) # Len(ret.in.values)
             THEN Failed("Values and weights length mismatch")
             ELSE Failed("Currency mismatch")

\* max over two PHP amounts followed by a JPY amount
C8_Witness ==
    /\ ret.op = "max"
    /\ Len(ret.in.values) = 3
    /\ ret.in.values[1].currency.code = "PHP"
    /\ ret.in.values[2].currency.code = "PHP"
    /\ ret.in.values[3].currency.code = "JPY"
    /\ ret.err = "Currency mismatch"

\* the operands the caller holds are as they were passed
OperandsUnchanged ==
    /\ ret.in.self # <<>> => self = ret.in.self
    /\ ret.in.other # <<>> => other = ret.in.other
    /\ ret.op \in Reductions => values = ret.in.values

ReturnsAnElement ==
    \/ ret.op \in {"min", "max"}
    \/ ret.op = "median" /\ Len(ret.in.values) % 2 = 1

RoundedAs(p, q, r, rm) ==
    LET lo    == p \div q
        exact == p % q = 0
        hi    == lo + 1
        twice == 2 * (p - lo * q)
        near  == IF twice < q THEN lo ELSE hi
        tie   == twice = q
        away  == IF p >= 0 THEN hi ELSE lo
        zero  == IF p >= 0 THEN lo ELSE hi
    IN  IF exact THEN r = lo
        ELSE CASE rm = ROUND_UP         -> r = away
               [] rm = ROUND_DOWN       -> r = zero
               [] rm = ROUND_CEIL       -> r = hi
               [] rm = ROUND_FLOOR      -> r = lo
               [] rm = ROUND_HALF_UP    -> r = IF tie THEN away ELSE near
               [] rm = ROUND_HALF_DOWN  -> r = IF tie THEN zero ELSE near
               [] rm = ROUND_HALF_EVEN  ->
                      r = IF tie THEN (IF lo % 2 = 0 THEN lo ELSE hi) ELSE near
               [] rm = ROUND_HALF_CEIL  -> r = IF tie THEN hi ELSE near
               [] rm = ROUND_HALF_FLOOR -> r = IF tie THEN lo ELSE near

\* C10: for a currency code of the table with minor-unit exponent k and a finite
\* major-unit value x, fromMajor returns an instance of that currency whose amount is
\* x * 10^k rounded to an integer with the mode given, half-to-even when none is
\* given; a value with at most k decimal digits is stored as exactly x * 10^k.
C10_FromMajorRounds ==
    (ret.op = "fromMajor" /\ ret.in.code \in DOMAIN CURRENCIES /\ IsFinite(ret.in.num))
    => /\ ret.err = "none"
       /\ Len(ret.out) = 1
       /\ ret.out[1].currency = CURRENCIES[ret.in.code]
       /\ IsInteger(ret.out[1].amount)
       /\ LET k  == CURRENCIES[ret.in.code].minorUnits
              p  == ret.in.num.n * Pow10(k)
              q  == ret.in.num.d
              rm == IF ret.in.mode = Omitted THEN ROUND_HALF_EVEN ELSE ret.in.mode
          IN  /\ RoundedAs(p, q, ret.out[1].amount.n, rm)
              /\ p % q = 0 => ret.out[1].amount.n * q = p

\* 1234.56 PHP, no mode given, is stored as 123456 minor units
C10_Witness ==
    /\ ret.op = "fromMajor"
    /\ ret.in.num = Frac(123456, 100)
    /\ ret.in.code = "PHP"
    /\ ret.in.mode = Omitted
    /\ OutMinor = <<123456>>


\* the receiver is 1000.00 PHP and evenSplit(3) has returned
SplitsThousandPesos ==
    /\ ret.op = "evenSplit"
    /\ ret.in.self = <<Instance(100000, "PHP")>>
    /\ ret.in.parts = 3

BuiltFromMinor ==
    /\ ret.err = "none"
    /\ \/ ret.op = "fromMinor" /\ IsFinite(ret.in.num)
       \/ /\ ret.op = "parseFromJSON"
          /\ ret.in.data.amount.t = "number"
          /\ IsFinite(ret.in.data.amount.v)

MinorGiven == IF ret.op = "fromMinor" THEN ret.in.num ELSE ret.in.data.amount.v

\* C12 as stated: the stored amount is the given minor-unit value truncated toward
\* zero.
C12_StoresTruncated ==
    BuiltFromMinor
    => RoundedAs(MinorGiven.n, MinorGiven.d, ret.out[1].amount.n, ROUND_DOWN)

\* C12: when fromMinor, or parseFromJSON with a numeric amount, is given a
\* non-integer minor-unit value, the stored amount is that value rounded to the
\* nearest integer, a tie going to the even one: 2.5 is stored as 2, 3.5 as 4 and
\* 2.9 as 3.
C12_StoresHalfEven ==
    BuiltFromMinor
    => /\ Len(ret.out) = 1
       /\ IsInteger(ret.out[1].amount)
       /\ RoundedAs(MinorGiven.n, MinorGiven.d, ret.out[1].amount.n, ROUND_HALF_EVEN)
       /\ MinorGiven = Frac(5, 2) => ret.out[1].amount.n = 2
       /\ MinorGiven = Frac(7, 2) => ret.out[1].amount.n = 4
       /\ MinorGiven = Frac(29, 10) => ret.out[1].amount.n = 3

\* fromMinor(3.5, "PHP") has stored 4
C12_Witness ==
    /\ ret.op = "fromMinor"
    /\ ret.in.num = Frac(7, 2)
    /\ ret.in.code = "PHP"
    /\ OutMinor = <<4>>

\* parseFromJSON with the numeric amount 3.5 has stored 4
C12_WitnessJSON ==
    /\ ret.op = "parseFromJSON"
    /\ ret.in.data.amount = JNumber(Frac(7, 2))
    /\ OutMinor = <<4>>


\* C13: convertFromQuoted with the quoted rate 0 fails with a division-by-zero error
\* and returns no instance, whatever the receiver and the target currency.
C13_QuotedZeroFails ==
    (ret.op = "convertFromQuoted" /\ IsZero(ret.in.num))
    => ret.err # "none" /\ ret.out = <<>>

\* what the call returns instead: an instance of the target currency whose amount is
\* not a number of minor units
C13_QuotedZeroReturnsNonFinite ==
    (ret.op = "convertFromQuoted" /\ IsZero(ret.in.num))
    => /\ ret.err = "none"
       /\ Len(ret.out) = 1
       /\ ret.out[1].currency.code = ret.in.code
       /\ ~IsFinite(ret.out[1].amount)
       /\ IsNaN(ret.out[1].amount)
             <=> (IsZero(ret.in.self[1].amount) \/ IsNaN(ret.in.self[1].amount))


\* the product of the denominators of the ratios rs
RECURSIVE RatioDen(_)
RatioDen(rs) == IF rs = <<>> THEN 1 ELSE rs[1].d * RatioDen(Tail(rs))

\* the sum of the ratios rs, counted in units of 1 / RatioDen(rs)
RatioSumNum(rs) == IntSum([i \in DOMAIN rs |-> rs[i].n * (RatioDen(rs) \div rs[i].d)])

\* allocate has been called on an integer amount with at least one ratio, finite
\* ratios and a positive ratio sum
AllocatedByRatios ==
    /\ ret.op = "allocate"
    /\ IsInteger(ret.in.self[1].amount)
    /\ Len(ret.in.ratios) >= 1
    /\ \A i \in DOMAIN ret.in.ratios : IsFinite(ret.in.ratios[i])
    /\ RatioSumNum(ret.in.ratios) > 0

\* t is amount * rs[i] / sum(rs) truncated toward zero
IsTruncatedShare(t, amount, rs, i) ==
    RoundedAs(amount * rs[i].n * RatioDen(rs), rs[i].d * RatioSumNum(rs), t, ROUND_DOWN)

ScaledByNumber ==
    /\ ret.op \in {"multiply", "divide"}
    /\ IsInteger(ret.in.self[1].amount)
    /\ IsFinite(ret.in.num)
    /\ ret.op = "divide" => ~IsZero(ret.in.num)

\* the exact product or quotient of the call, as the fraction ExactNum / ExactDen
\* with a positive denominator
ExactNum ==
    LET a == ret.in.self[1].amount.n
        x == ret.in.num
    IN  IF ret.op = "multiply" THEN a * x.n ELSE Sgn(x.n) * a * x.d

ExactDen == IF ret.op = "multiply" THEN ret.in.num.d ELSE Abs(ret.in.num.n)

\* the receiver holds a minor units and has been divided by 2 with no mode given
HalvedByDefault(a) ==
    /\ ret.op = "divide"
    /\ ret.in.self[1].amount = DInt(a)
    /\ ret.in.num = DInt(2)
    /\ ret.in.mode = Omitted

\* C15: multiply(factor) and divide(divisor) with a nonzero divisor return an
\* instance of the receiver's currency whose amount is the exact product or quotient
\* of the minor-unit amount rounded once to an integer with the mode given; with no
\* mode given a tie goes to the even integer: 5 divided by 2 gives 2, 7 divided by 2
\* gives 4 and -5 divided by 2 gives -2.
C15_ScalingRoundsOnce ==
    /\ ScaledByNumber
       => /\ ret.err = "none"
          /\ Len(ret.out) = 1
          /\ ret.out[1].currency = ret.in.self[1].currency
          /\ IsInteger(ret.out[1].amount)
          /\ RoundedAs(ExactNum, ExactDen, ret.out[1].amount.n,
                       IF ret.in.mode = Omitted THEN ROUND_HALF_EVEN ELSE ret.in.mode)
    /\ HalvedByDefault(5) => OutMinor = <<2>>
    /\ HalvedByDefault(7) => OutMinor = <<4>>
    /\ HalvedByDefault(-5) => OutMinor = <<-2>>

\* 7 minor units divided by 2 with no mode given are 4
C15_Witness == HalvedByDefault(7) /\ OutMinor = <<4>>

\* 5 minor units multiplied by 1/2 and rounded up are 3
C15_WitnessMultiply ==
    /\ ret.op = "multiply"
    /\ ret.in.self[1].amount = DInt(5)
    /\ ret.in.num = Frac(1, 2)
    /\ ret.in.mode = ROUND_UP
    /\ OutMinor = <<3>>


\* the sequence of n ones
Ones(n) == [i \in 1..n |-> DInt(1)]

C16_WitnessFails ==
    /\ ret.op = "evenSplit"
    /\ ret.in.parts = 0
    /\ ret.err = "Number of parts must be > 0"


\* weightedAverage has been called with a non-empty array of one currency
WeightedUniform ==
    /\ ret.op = "weightedAverage"
    /\ ret.in.values # <<>>
    /\ ~MixedArray

\* ... and with as many weights as values, of nonzero sum
WeightedWellFormed ==
    /\ WeightedUniform
    /\ Len(ret.in.weights) = Len(ret.in.values)
    /\ RatioSumNum(ret.in.weights) # 0

\* sum(value_i * weight_i), counted in units of 1 / RatioDen(weights)
WeightedSumNum ==
    LET vs == ret.in.values
        ws == ret.in.weights
    IN  IntSum([i \in DOMAIN vs |->
                   vs[i].amount.n * ws[i].n * (RatioDen(ws) \div ws[i].d)])

\* the amount returned is sum(value_i * weight_i) / sum(weight_i) rounded once,
\* half-to-even
WeightedRoundedOnce ==
    /\ ret.err = "none"
    /\ Len(ret.out) = 1
    /\ ret.out[1].currency = ret.in.values[1].currency
    /\ LET w == RatioSumNum(ret.in.weights)
       IN  RoundedAs(Sgn(w) * WeightedSumNum, Abs(w), ret.out[1].amount.n,
                     ROUND_HALF_EVEN)

\* C17: for a non-empty array of one currency and as many weights, of nonzero sum,
\* weightedAverage returns the instance whose amount is
\* sum(value_i * weight_i) / sum(weight_i) rounded once half-to-even, for integer and
\* for fractional weights alike; when the two arrays differ in length it fails with
\* a length-mismatch error.
C17_WeightedAverageRoundsOnce ==
    /\ WeightedWellFormed => WeightedRoundedOnce
    /\ (WeightedUniform /\ Len(ret.in.weights) # Len(ret.in.values))
       => Failed("Values and weights length mismatch")

\* what holds of the code: with integer weights the amount is rounded once, and
\* arrays of differing length fail
WeightedAverageOfIntegerWeights ==
    /\ (WeightedWellFormed /\ \A i \in DOMAIN ret.in.weights : IsInteger(ret.in.weights[i]))
       => WeightedRoundedOnce
    /\ (WeightedUniform /\ Len(ret.in.weights) # Len(ret.in.values))
       => Failed("Values and weights length mismatch")

\* the products 1 * 0.5 and 2 * 0.5 have been rounded one by one: 0 + 1 = 1, while
\* 1.5 rounded once is 2
WeightedAverageRoundsEachProduct ==
    (/\ ret.op = "weightedAverage"
     /\ ret.in.values = <<Instance(1, "JPY"), Instance(2, "JPY")>>
     /\ ret.in.weights = <<Frac(1, 2), Frac(1, 2)>>)
    => OutMinor = <<1>>


\* median has been called with a non-empty array of one currency
MedianUniform ==
    /\ ret.op = "median"
    /\ ret.in.values # <<>>
    /\ ~MixedArray

\* the k-th smallest minor-unit amount of the array passed, repetitions counted
KthSmallest(k) ==
    LET vs == ret.in.values
        a  == [i \in DOMAIN vs |-> vs[i].amount.n]
    IN  CHOOSE x \in {a[i] : i \in DOMAIN vs} :
            /\ Cardinality({i \in DOMAIN vs : a[i] < x}) < k
            /\ Cardinality({i \in DOMAIN vs : a[i] <= x}) >= k

\* C18: for a non-empty array of one currency, in any order, median returns, when
\* the count is odd, the element in the middle position of the ascending order by
\* minor-unit amount, unchanged (the instance of the array itself); when the count is
\* even, the sum of the two middle elements of that order divided by 2 and rounded
\* half-to-even.
C18_MedianOfSorted ==
    MedianUniform
    => LET vs == ret.in.values
           n  == Len(vs)
       IN  /\ ret.err = "none"
           /\ Len(ret.out) = 1
           /\ ret.out[1].currency = vs[1].currency
           /\ IF n % 2 = 1
              THEN /\ ret.out[1].amount = DInt(KthSmallest((n + 1) \div 2))
                   /\ ret.ref[1] \in DOMAIN vs
                   /\ ret.out[1] = vs[ret.ref[1]]
              ELSE /\ IsInteger(ret.out[1].amount)
                   /\ RoundedAs(KthSmallest(n \div 2) + KthSmallest(n \div 2 + 1), 2,
                                ret.out[1].amount.n, ROUND_HALF_EVEN)

\* the median of 2, 4, 1 JPY is the first element of the array, 2
C18_Witness ==
    /\ ret.op = "median"
    /\ ret.in.values = <<Instance(2, "JPY"), Instance(4, "JPY"), Instance(1, "JPY")>>
    /\ ret.out = <<Instance(2, "JPY")>>
    /\ ret.ref = <<1>>

\* the median of 4 and 1 PHP minor units is 2.5 rounded to the even 2
C18_WitnessEven ==
    /\ ret.op = "median"
    /\ ret.in.values = <<Instance(4, "PHP"), Instance(1, "PHP")>>
    /\ OutMinor = <<2>>


\* variance has been called with a non-empty array of one currency
VarianceUniform ==
    /\ ret.op = "variance"
    /\ ret.in.values # <<>>
    /\ ~MixedArray

\* the major-unit value of the i-th element of the array passed
MajorValue(i) ==
    Frac(ret.in.values[i].amount.n, Pow10(ret.in.values[i].currency.minorUnits))

\* the sum of the decimal values xs
RECURSIVE DecimalSum(_)
DecimalSum(xs) == IF xs = <<>> THEN DInt(0) ELSE DAdd(xs[1], DecimalSum(Tail(xs)))

\* the exact mean of the major-unit values
ExactMean ==
    DDiv(DecimalSum([i \in DOMAIN ret.in.values |-> MajorValue(i)]),
         DInt(Len(ret.in.values)))

\* the population variance of the major-unit values: the sum of the squared
\* differences from the exact mean, divided by the count
PopulationVariance ==
    LET sq == [i \in DOMAIN ret.in.values |->
                  DMul(DSub(MajorValue(i), ExactMean), DSub(MajorValue(i), ExactMean))]
    IN  DDiv(DecimalSum(sq), DInt(Len(ret.in.values)))

\* C19: for a non-empty array of one currency, variance returns the population
\* variance of the major-unit values, taken from their exact mean, converted to
\* minor units with half-to-even rounding; for 100, 200 and 300 USD the result is
\* 666667 minor units.
C19_VarianceFromExactMean ==
    /\ VarianceUniform
       => /\ ret.err = "none"
          /\ Len(ret.out) = 1
          /\ ret.out[1].currency = ret.in.values[1].currency
          /\ LET minor == DMul(PopulationVariance,
                               DInt(Pow10(ret.in.values[1].currency.minorUnits)))
             IN  RoundedAs(minor.n, minor.d, ret.out[1].amount.n, ROUND_HALF_EVEN)
    /\ (ret.op = "variance" /\ ret.in.values = StatisticsExample)
       => OutMinor = <<666667>>

\* what holds of the code: the example of 100, 200 and 300 USD gives 666667 minor
\* units
VarianceOfStatisticsExample ==
    (ret.op = "variance" /\ ret.in.values = StatisticsExample)
    => ret.err = "none" /\ OutMinor = <<666667>>

\* the differences have been taken from the rounded average 2, not from the mean
\* 2.5: (1 + 0 + 1 + 4) / 4 = 1.5 gives 2, while the population variance 1.25 gives 1
VarianceUsesRoundedAverage ==
    (ret.op = "variance" /\ ret.in.values = FourYenAmounts)
    => ret.err = "none" /\ OutMinor = <<2>>

===========================================================================
